---------------------------- MODULE Spec2Model ----------------------------
(***************************************************************************)
(* Model of the musigboxli firmware (src/musigboxli.ino): the input        *)
(* sampler playCallBack (button debounce masks and volume lookup) and the  *)
(* playlist navigation done by loop() after every pcmPlay.play call.       *)
(*                                                                         *)
(* Bit masks (buttonPressed, buttonPressedReleased, rv, callBackVal) are   *)
(* represented as the set of button indices whose bit is set: x |= bitMask *)
(* is a union with {i}, x &= ~bitMask a difference, and a & b & ~c a       *)
(* membership test.  All masks of the code are at least 16 bits wide and   *)
(* only bits 0..10 are ever shifted in, so no bit is lost.                 *)
(*                                                                         *)
(* The playback engine (pcmPlay library) is the environment: it calls      *)
(* playCallBack any number of times during a play call, stops as soon as   *)
(* the callback returns a non-zero value (handing that value back), or     *)
(* returns at the end of the file, or returns with an error.               *)
(***************************************************************************)
EXTENDS Integers, Sequences, FiniteSets

\* ------------------------------------------------------------ constants

buttonIxMap == << 6, 7, 8, 5, 4, 3, 2, 1, 0, 10, 15 >>

numButtons == Len(buttonIxMap)

volTable == << 1, 2, 3, 4, 5, 6, 7, 9, 11, 13, 17, 21, 26, 32, 40, 50 >>

backButtonIx == 9

fwdButtonIx == 10

firstAlbIx == 3

firstSongIx == 0

\* char fileName[10]
fileNameSize == 10

\* the last album index the error recovery steps from before wrapping to 0
lastAlbIx == 8

\* ---------------------------------------------------------------- bounds

\* at most this many button pins are read low in one callback
MaxDown == 2

\* the collection buttons 0 .. MaxKey are the ones pressed besides the last
\* collection's button, the back button and the forward button
MaxKey == 0

\* song indices above this one are not explored
MaxIdx == 2

\* the length of a run of pressed reads is counted up to this value
MaxHeld == 3

\* where the whole range of the converter is explored, the reading changes
\* by at most this much from one callback to the next
MaxTurn == 1

\* where loop() is run on its own, song indices above this one are not
\* explored
MaxNavIdx == 1000

\* and no more than this many play calls in a row return an error
MaxErrRun == 10

\* where playCallBack is applied to arbitrary masks, the buttons 0 .. MaxPin,
\* the back button and the forward button are the ones pressed or set
MaxPin == 2

\* ------------------------------------------------------- derived domains

Buttons == 0 .. (numButtons - 1)

ButtonPins == { buttonIxMap[k] : k \in 1 .. numButtons }

\* the buttons that are pressed at all
Keys == (0 .. MaxKey) \cup { lastAlbIx, backButtonIx, fwdButtonIx }

\* the sets of pins a callback may read low (driven to ground)
LowSets ==
    { L \in SUBSET { buttonIxMap[i + 1] : i \in Keys } :
        Cardinality(L) <= MaxDown }

\* the reading of the 10 bit converter the callbacks get for the
\* potentiometer (the volume does not feed back into any other state)
AinReadings == { 1023 }

\* resolution of the converter in bits
adcBits == 10

\* every reading analogRead can return
AinRange == 0 .. (2 ^ adcBits - 1)

\* the pin sets read where the whole range of the converter is explored
VolumeLows == { {}, { buttonIxMap[fwdButtonIx + 1] } }

\* the buttons explored where playCallBack is applied to arbitrary masks
RuleButtons == (0 .. MaxPin) \cup { backButtonIx, fwdButtonIx }

\* every vector of pin levels of these buttons
RuleLows == SUBSET { buttonIxMap[i + 1] : i \in RuleButtons }

NONE == "PCM_PLAY_ERROR_NONE"

FAIL == "PCM_PLAY_ERROR"

VARIABLES
    buttonPressed,          \* static mask of playCallBack
    buttonPressedReleased,  \* static mask of playCallBack
    rv,                     \* value returned by the latest playCallBack call
    volume,                 \* value written to *pVolume by the latest call
                            \* (-1: not written yet)
    pot,                    \* reading of the potentiometer: what the latest
                            \* analogRead returned (at start: its position)
    alb, idx,               \* statics of loop()
    pc,                     \* "loop": at the entry of loop(); "play": inside
                            \* pcmPlay.play; "ret": play has returned
    rtrn, callBackVal,      \* locals of loop() set by pcmPlay.play
    was,                    \* history: alb and idx when the cycle started
    consumed,               \* history: buttons emitted and read pressed in
                            \* every callback since
    reEmitted,              \* history: buttons emitted while in consumed
    lost,                   \* history: buttons emitted in a cycle that ended
                            \* with an error and read pressed since
    tick,                   \* history: "none" while the play call of the
                            \* cycle has not called back, "first" after its
                            \* first callback, "later" after the following
                            \* ones
    lastLow,                \* history: buttons the latest callback read
                            \* pressed
    scen,                   \* history: number of cycles that followed the
                            \* end-to-end scenario so far, -1 once left
    watch,                  \* history: the button whose run is recorded
    held,                   \* history: length of watch's current run of
                            \* pressed reads (counted up to MaxHeld)
    emitted,                \* history: calls of the current run that
                            \* returned watch's bit
    again,                  \* history: the current run (or release) follows
                            \* a reported press and exactly one released read
    errRun,                 \* history: number of cycles in a row, up to the
                            \* latest one, whose play call returned an error
    errFirst,               \* history: alb after the first cycle of that run
    swept                   \* history: the collections requested at item 0
                            \* by the cycles of that run

samplerVars == << buttonPressed, buttonPressedReleased, rv, volume, pot >>

navVars == << alb, idx, pc, rtrn, callBackVal, was, scen >>

cycleHist == << consumed, reEmitted, lost, tick, lastLow >>

runHist == << watch, held, emitted, again >>

navHist == << errRun, errFirst, swept >>

vars == << samplerVars, navVars, cycleHist, runHist, navHist >>

\* ------------------------------------------------------------ playCallBack

\* digitalRead(buttonPin) for button index i: 1 unless the pin is driven low
digitalRead(low, i) == IF buttonIxMap[i + 1] \in low THEN 0 ELSE 1

\* a release that forgets to clear the reported mask
ButtonStepKeepReported(low, i, st) ==
    IF digitalRead(low, i) = 1
    THEN [st EXCEPT !.bp = @ \ {i}]
    ELSE IF i \in st.bp /\ i \notin st.bpr
         THEN [st EXCEPT !.rv = @ \cup {i}]
         ELSE [st EXCEPT !.bp = @ \cup {i}]

\* a press that is reported on the first pressed read already
ButtonStepNoDelay(low, i, st) ==
    IF digitalRead(low, i) = 1
    THEN [st EXCEPT !.bp = @ \ {i}, !.bpr = @ \ {i}]
    ELSE IF i \notin st.bpr
         THEN [st EXCEPT !.rv = @ \cup {i}, !.bp = @ \cup {i}]
         ELSE [st EXCEPT !.bp = @ \cup {i}]

\* the first pressed read sets the bit in the reported mask instead of the
\* pressed mask
ButtonStepWrongMask(low, i, st) ==
    IF digitalRead(low, i) = 1
    THEN [st EXCEPT !.bp = @ \ {i}, !.bpr = @ \ {i}]
    ELSE IF i \in st.bp /\ i \notin st.bpr
         THEN [st EXCEPT !.rv = @ \cup {i}]
         ELSE [st EXCEPT !.bpr = @ \cup {i}]

\* one iteration of the while loop, for button index i (bitMask = 1 << i)
ButtonStep(low, i, st) ==
    IF digitalRead(low, i) = 1
    THEN [st EXCEPT !.bp = @ \ {i}, !.bpr = @ \ {i}]
    ELSE IF i \in st.bp /\ i \notin st.bpr
         THEN [st EXCEPT !.rv = @ \cup {i}]
         ELSE [st EXCEPT !.bp = @ \cup {i}]

RECURSIVE ScanButtons(_, _, _)
\* the while (numBut--) loop from button index i on
ScanButtons(low, i, st) ==
    IF i >= numButtons
    THEN st
    ELSE ScanButtons(low, i + 1, ButtonStep(low, i, st))

\* the reading is scaled to 8 bits without the lookup table
VolumeOfLinear(ain) == ain \div 4

\* the table is read from its far end
VolumeOfInverted(ain) == volTable[Len(volTable) - (ain \div 64)]

\* volTable[ain >> 6]
VolumeOf(ain) == volTable[(ain \div 64) + 1]

\* after the loop every pressed button is marked as reported
PlayCallBackMarkPressed(low, ain, bp, bpr) ==
    LET st == ScanButtons(low, 0, [bp |-> bp, bpr |-> bpr, rv |-> {}])
    IN  [bp |-> st.bp, bpr |-> st.bpr \cup st.bp, rv |-> st.rv,
         vol |-> VolumeOf(ain)]

\* the reported mask is not updated with the emitted bits
PlayCallBackNoMark(low, ain, bp, bpr) ==
    LET st == ScanButtons(low, 0, [bp |-> bp, bpr |-> bpr, rv |-> {}])
    IN  [bp |-> st.bp, bpr |-> st.bpr, rv |-> st.rv, vol |-> VolumeOf(ain)]

\* one call of playCallBack on the statics bp (buttonPressed) and bpr
\* (buttonPressedReleased): the new statics, the return value and *pVolume
PlayCallBack(low, ain, bp, bpr) ==
    LET st == ScanButtons(low, 0, [bp |-> bp, bpr |-> bpr, rv |-> {}])
    IN  [bp |-> st.bp, bpr |-> st.bpr \cup st.rv, rv |-> st.rv,
         vol |-> VolumeOf(ain)]

\* ------------------------------------------------------------------ loop()

RECURSIVE FirstPressed(_, _)
\* while (buttonIx < numButtons) { if ((1 << buttonIx) & callBackVal) break; }
FirstPressed(buttonIx, cbv) ==
    IF buttonIx < numButtons /\ buttonIx \notin cbv
    THEN FirstPressed(buttonIx + 1, cbv)
    ELSE buttonIx

DigitChars == << "0", "1", "2", "3", "4", "5", "6", "7", "8", "9" >>

RECURSIVE Decimal(_)
\* what %d of sprintf writes for the int n
Decimal(n) ==
    IF n < 0 THEN << "-" >> \o Decimal(0 - n)
    ELSE IF n < 10 THEN << DigitChars[n + 1] >>
    ELSE Decimal(n \div 10) \o << DigitChars[(n % 10) + 1] >>

\* the characters sprintf(fileName, "%d/%d.WAV", alb, idx) writes before the
\* terminating zero
FileName(a, i) ==
    Decimal(a) \o << "/" >> \o Decimal(i) \o << ".", "W", "A", "V" >>

\* the characters and the terminating zero are inside fileName
Fits(a, i) == Len(FileName(a, i)) + 1 <= fileNameSize

\* the back button decrements without the test for zero
DispatchNoSaturation(buttonIx, a, i) ==
    IF buttonIx = backButtonIx THEN [alb |-> a, idx |-> i - 1]
    ELSE IF buttonIx = fwdButtonIx THEN [alb |-> a, idx |-> i + 1]
    ELSE IF a = buttonIx THEN [alb |-> a, idx |-> i + 1]
    ELSE [alb |-> buttonIx, idx |-> 0]

\* a collection switch that keeps the song index
DispatchKeepIdx(buttonIx, a, i) ==
    IF buttonIx = backButtonIx
    THEN [alb |-> a, idx |-> IF i > 0 THEN i - 1 ELSE 0]
    ELSE IF buttonIx = fwdButtonIx THEN [alb |-> a, idx |-> i + 1]
    ELSE IF a = buttonIx THEN [alb |-> a, idx |-> i + 1]
    ELSE [alb |-> buttonIx, idx |-> i]

\* the button of the current collection restarts it instead of advancing
DispatchRestart(buttonIx, a, i) ==
    IF buttonIx = backButtonIx
    THEN [alb |-> a, idx |-> IF i > 0 THEN i - 1 ELSE 0]
    ELSE IF buttonIx = fwdButtonIx THEN [alb |-> a, idx |-> i + 1]
    ELSE [alb |-> buttonIx, idx |-> 0]

\* the back button has no case of its own and is taken for a collection
DispatchBackAsCollection(buttonIx, a, i) ==
    IF buttonIx = fwdButtonIx THEN [alb |-> a, idx |-> i + 1]
    ELSE IF a = buttonIx THEN [alb |-> a, idx |-> i + 1]
    ELSE [alb |-> buttonIx, idx |-> 0]

\* switch (buttonIx) of loop()
Dispatch(buttonIx, a, i) ==
    IF buttonIx = backButtonIx
    THEN [alb |-> a, idx |-> IF i > 0 THEN i - 1 ELSE 0]
    ELSE IF buttonIx = fwdButtonIx THEN [alb |-> a, idx |-> i + 1]
    ELSE IF a = buttonIx THEN [alb |-> a, idx |-> i + 1]
    ELSE [alb |-> buttonIx, idx |-> 0]

\* an unplayable first song is tried again
ErrorRecoveryRetry(a, i) == [alb |-> a, idx |-> 0]

\* the wrap happens one collection early
ErrorRecoveryEarlyWrap(a, i) ==
    [alb |-> IF i = 0 THEN (IF a < lastAlbIx - 1 THEN a + 1 ELSE 0) ELSE a,
     idx |-> 0]

\* every error moves on to the next collection
ErrorRecoveryAlwaysSkip(a, i) ==
    [alb |-> IF a < lastAlbIx THEN a + 1 ELSE 0, idx |-> 0]

\* the else branch of loop(): play returned an error
ErrorRecovery(a, i) ==
    [alb |-> IF i = 0 THEN (IF a < lastAlbIx THEN a + 1 ELSE 0) ELSE a,
     idx |-> 0]

\* the dispatch uses the highest pressed button instead of the lowest
LoopDecideHighest(r, cbv, a, i) ==
    IF r = NONE
    THEN IF cbv # {}
         THEN Dispatch(CHOOSE b \in cbv : \A c \in cbv : c <= b, a, i)
         ELSE [alb |-> a, idx |-> i + 1]
    ELSE ErrorRecovery(a, i)

\* a cycle without a press event leaves the song index alone
LoopDecideNoAdvance(r, cbv, a, i) ==
    IF r = NONE
    THEN IF cbv # {}
         THEN Dispatch(FirstPressed(0, cbv), a, i)
         ELSE [alb |-> a, idx |-> i]
    ELSE ErrorRecovery(a, i)

\* the press events are looked at before the outcome of the play call
LoopDecideEventFirst(r, cbv, a, i) ==
    IF cbv # {}
    THEN Dispatch(FirstPressed(0, cbv), a, i)
    ELSE IF r = NONE
         THEN [alb |-> a, idx |-> i + 1]
         ELSE ErrorRecovery(a, i)

\* what loop() does with alb and idx once play has returned r and cbv
LoopDecide(r, cbv, a, i) ==
    IF r = NONE
    THEN IF cbv # {}
         THEN Dispatch(FirstPressed(0, cbv), a, i)
         ELSE [alb |-> a, idx |-> i + 1]
    ELSE ErrorRecovery(a, i)

\* ------------------------------------------------------------ initial state

Init ==
    /\ buttonPressed = {}
    /\ buttonPressedReleased = {}
    /\ rv = {}
    /\ volume = -1
    /\ pot \in AinReadings
    /\ alb = firstAlbIx
    /\ idx = firstSongIx
    /\ pc = "loop"
    /\ rtrn = "-"
    /\ callBackVal = {}
    /\ was = [alb |-> firstAlbIx, idx |-> firstSongIx]
    /\ consumed = {}
    /\ reEmitted = {}
    /\ lost = {}
    /\ tick = "none"
    /\ lastLow = {}
    /\ scen = 0
    /\ watch = numButtons
    /\ held = 0
    /\ emitted = 0
    /\ again = FALSE
    /\ errRun = 0
    /\ errFirst = 0
    /\ swept = {}

\* ----------------------------------------------------------------- actions

\* the statics and outputs of one playCallBack call
SamplerStep(low, ain) ==
    \E r \in { PlayCallBack(low, ain, buttonPressed, buttonPressedReleased) } :
        /\ buttonPressed' = r.bp
        /\ buttonPressedReleased' = r.bpr
        /\ rv' = r.rv
        /\ volume' = r.vol
        /\ pot' = ain

\* the buttons whose pin a callback reads low
Pressed(low) == { i \in Buttons : digitalRead(low, i) = 0 }

\* the end-to-end scenario: the outcome of cycles 1..4
Scenario ==
    << [rtrn |-> NONE, cbv |-> {}],
       [rtrn |-> NONE, cbv |-> {fwdButtonIx}],
       [rtrn |-> FAIL],
       [rtrn |-> FAIL] >>

ScenarioStep(k, r, cbv) ==
    IF k >= 0 /\ k < Len(Scenario)
       /\ r = Scenario[k + 1].rtrn
       /\ (r = NONE => cbv = Scenario[k + 1].cbv)
    THEN k + 1
    ELSE -1

\* loop() clears the masks of the sampler before it plays an item
RequestResetSampler ==
    /\ pc = "loop"
    /\ pc' = "play"
    /\ was' = [alb |-> alb, idx |-> idx]
    /\ rtrn' = "-"
    /\ callBackVal' = {}
    /\ buttonPressed' = {}
    /\ buttonPressedReleased' = {}
    /\ UNCHANGED << rv, volume, pot, alb, idx, scen, cycleHist, runHist, navHist >>

\* loop() is entered, builds the file name and calls pcmPlay.play
Request ==
    /\ pc = "loop"
    /\ pc' = "play"
    /\ was' = [alb |-> alb, idx |-> idx]
    /\ rtrn' = "-"
    /\ callBackVal' = {}
    /\ UNCHANGED << samplerVars, alb, idx, scen, cycleHist, runHist, navHist >>

\* the engine calls playCallBack; a non-zero return value ends the play call,
\* which hands the value back and returns r: no error if stopping went well
CallBack(low, ain) ==
    /\ pc = "play"
    /\ SamplerStep(low, ain)
    /\ consumed' = (consumed \cap Pressed(low)) \cup rv'
    /\ reEmitted' = reEmitted \cup (rv' \cap consumed)
    /\ tick' = (IF tick = "none" THEN "first" ELSE "later")
    /\ lastLow' = Pressed(low)
    /\ IF rv' # {}
       THEN \E r \in { NONE, FAIL } :
                /\ LoopDecide(r, rv', alb, idx).idx <= MaxIdx
                /\ pc' = "ret"
                /\ rtrn' = r
                /\ callBackVal' = rv'
                /\ lost' = (lost \cap Pressed(low))
                             \cup (IF r = FAIL THEN rv' ELSE {})
       ELSE /\ lost' = lost \cap Pressed(low)
            /\ UNCHANGED << pc, rtrn, callBackVal >>
    /\ UNCHANGED << alb, idx, was, scen, runHist, navHist >>

\* the engine reaches the end of the file: no press event to hand back
PlayFinished ==
    /\ pc = "play"
    /\ LoopDecide(NONE, {}, alb, idx).idx <= MaxIdx
    /\ pc' = "ret"
    /\ rtrn' = NONE
    /\ callBackVal' = {}
    /\ UNCHANGED << samplerVars, alb, idx, was, scen, cycleHist, runHist, navHist >>

\* values the engine may leave in callBackVal when it returns an error
ErrorVals == { {}, {0, fwdButtonIx} }

\* the engine fails (file missing or unreadable)
PlayError(cbv) ==
    /\ pc = "play"
    /\ pc' = "ret"
    /\ rtrn' = FAIL
    /\ callBackVal' = cbv
    /\ UNCHANGED << samplerVars, alb, idx, was, scen, cycleHist, runHist, navHist >>

\* loop() does not return after a failed play
DecideHaltOnError ==
    /\ pc = "ret"
    /\ rtrn = NONE
    /\ LET n == LoopDecide(rtrn, callBackVal, alb, idx)
       IN  /\ alb' = n.alb
           /\ idx' = n.idx
    /\ scen' = ScenarioStep(scen, rtrn, callBackVal)
    /\ pc' = "loop"
    /\ tick' = "none"
    /\ UNCHANGED << samplerVars, rtrn, callBackVal, was, consumed, reEmitted,
                    lost, lastLow, runHist, navHist >>

\* the rest of loop() after play has returned
Decide ==
    /\ pc = "ret"
    /\ LET n == LoopDecide(rtrn, callBackVal, alb, idx)
       IN  /\ alb' = n.alb
           /\ idx' = n.idx
    /\ scen' = ScenarioStep(scen, rtrn, callBackVal)
    /\ pc' = "loop"
    /\ tick' = "none"
    /\ UNCHANGED << samplerVars, rtrn, callBackVal, was, consumed, reEmitted,
                    lost, lastLow, runHist, navHist >>

Next ==
    \/ Request
    \/ \E low \in LowSets, ain \in AinReadings : CallBack(low, ain)
    \/ PlayFinished
    \/ \E cbv \in ErrorVals : PlayError(cbv)
    \/ Decide

Spec == Init /\ [][Next]_vars

\* ------------------------------------------------- the sampler on its own

InitSampler ==
    /\ buttonPressed = {}
    /\ buttonPressedReleased = {}
    /\ rv = {}
    /\ volume = -1
    /\ pot \in AinReadings
    /\ alb = firstAlbIx
    /\ idx = firstSongIx
    /\ pc = "play"
    /\ rtrn = "-"
    /\ callBackVal = {}
    /\ was = [alb |-> firstAlbIx, idx |-> firstSongIx]
    /\ consumed = {}
    /\ reEmitted = {}
    /\ lost = {}
    /\ tick = "none"
    /\ lastLow = {}
    /\ scen = 0
    /\ watch \in Keys
    /\ held = 0
    /\ emitted = 0
    /\ again = FALSE
    /\ errRun = 0
    /\ errFirst = 0
    /\ swept = {}

Cap(n) == IF n > MaxHeld THEN MaxHeld ELSE n

\* one playCallBack call, with the run of the watched button recorded
Sample(low, ain) ==
    /\ SamplerStep(low, ain)
    /\ IF watch \in Pressed(low)
       THEN /\ held' = Cap(held + 1)
            /\ emitted' = Cap(emitted + (IF watch \in rv' THEN 1 ELSE 0))
            /\ again' = again
       ELSE /\ held' = 0
            /\ emitted' = 0
            /\ again' = (held > 0 /\ emitted > 0)
    /\ UNCHANGED << navVars, cycleHist, watch, navHist >>

NextSampler == \E low \in LowSets, ain \in AinReadings : Sample(low, ain)

SpecSampler == InitSampler /\ [][NextSampler]_vars

\* ---------------------------------------- the whole range of the converter

InitVolume ==
    /\ buttonPressed = {}
    /\ buttonPressedReleased = {}
    /\ rv = {}
    /\ volume = -1
    /\ pot \in AinRange
    /\ alb = firstAlbIx
    /\ idx = firstSongIx
    /\ pc = "play"
    /\ rtrn = "-"
    /\ callBackVal = {}
    /\ was = [alb |-> firstAlbIx, idx |-> firstSongIx]
    /\ consumed = {}
    /\ reEmitted = {}
    /\ lost = {}
    /\ tick = "none"
    /\ lastLow = {}
    /\ scen = 0
    /\ watch = numButtons
    /\ held = 0
    /\ emitted = 0
    /\ again = FALSE
    /\ errRun = 0
    /\ errFirst = 0
    /\ swept = {}

\* one playCallBack call while the potentiometer is being turned
VolumeCall(low, ain) ==
    /\ SamplerStep(low, ain)
    /\ UNCHANGED << navVars, cycleHist, runHist, navHist >>

NextVolume ==
    \E low \in VolumeLows :
        \E ain \in { a \in (pot - MaxTurn) .. (pot + MaxTurn) : a \in AinRange } :
            VolumeCall(low, ain)

SpecVolume == InitVolume /\ [][NextVolume]_vars

\* --------------------------------------- playCallBack on arbitrary masks

InitRule ==
    /\ buttonPressed \in SUBSET RuleButtons
    /\ buttonPressedReleased \in SUBSET buttonPressed
    /\ rv = {}
    /\ volume = -1
    /\ pot \in AinReadings
    /\ alb = firstAlbIx
    /\ idx = firstSongIx
    /\ pc = "play"
    /\ rtrn = "-"
    /\ callBackVal = {}
    /\ was = [alb |-> firstAlbIx, idx |-> firstSongIx]
    /\ consumed = {}
    /\ reEmitted = {}
    /\ lost = {}
    /\ tick = "none"
    /\ lastLow = {}
    /\ scen = 0
    /\ watch = numButtons
    /\ held = 0
    /\ emitted = 0
    /\ again = FALSE
    /\ errRun = 0
    /\ errFirst = 0
    /\ swept = {}

\* one playCallBack call, with the buttons it read pressed recorded
RuleCall(low, ain) ==
    /\ SamplerStep(low, ain)
    /\ lastLow' = Pressed(low)
    /\ UNCHANGED << navVars, consumed, reEmitted, lost, tick, runHist, navHist >>

NextRule == \E low \in RuleLows, ain \in AinReadings : RuleCall(low, ain)

SpecRule == InitRule /\ [][NextRule]_vars

\* ------------------------------------------------------- loop() on its own

\* the press event sets a finished play hands back
NavEvents == { S \in SUBSET Keys : Cardinality(S) <= MaxDown }

\* what one run of loop() does to alb and idx when play returns r and cbv,
\* with the run of errors recorded
NavStep(r, cbv) ==
    /\ r = FAIL => errRun < MaxErrRun
    /\ \E n \in { LoopDecide(r, cbv, alb, idx) } :
           /\ n.idx <= MaxNavIdx
           /\ alb' = n.alb
           /\ idx' = n.idx
           /\ IF r = FAIL
              THEN /\ errRun' = errRun + 1
                   /\ errFirst' = (IF errRun = 0 THEN n.alb ELSE errFirst)
                   /\ swept' = (IF errRun = 0 THEN {} ELSE swept)
                                 \cup (IF idx = 0 THEN {alb} ELSE {})
              ELSE /\ errRun' = 0
                   /\ errFirst' = 0
                   /\ swept' = {}

\* one run of loop() from its entry to its end, the file name fitting
Cycle(r, cbv) ==
    /\ pc = "loop"
    /\ Fits(alb, idx)
    /\ NavStep(r, cbv)
    /\ UNCHANGED << samplerVars, pc, rtrn, callBackVal, was, scen, cycleHist,
                    runHist >>

\* one run of loop() in which sprintf writes behind the end of fileName: the
\* byte is not missed and loop() goes on, or the controller starts again
Overrun(r, cbv) ==
    /\ pc = "loop"
    /\ ~Fits(alb, idx)
    /\ \/ NavStep(r, cbv)
       \/ /\ alb' = firstAlbIx
          /\ idx' = firstSongIx
          /\ errRun' = 0
          /\ errFirst' = 0
          /\ swept' = {}
    /\ UNCHANGED << samplerVars, pc, rtrn, callBackVal, was, scen, cycleHist,
                    runHist >>

NextNav ==
    \E r \in { NONE, FAIL } :
        \E cbv \in (IF r = NONE THEN NavEvents ELSE ErrorVals) :
            \/ Cycle(r, cbv)
            \/ Overrun(r, cbv)

SpecNav == Init /\ [][NextNav]_vars

\* ------------------------------------------------------------------ claims

MinOf(S) == CHOOSE x \in S : \A y \in S : x <= y

MaxOf(a, b) == IF a >= b THEN a ELSE b

\* a cycle has ended: Decide has acted on the state recorded in was
CycleEnded == pc = "loop" /\ rtrn # "-"

\* the cycle that ended finished without error and handed back press events
PressCycle == CycleEnded /\ rtrn = NONE /\ callBackVal # {}

\* C1: in a run of consecutive calls that read the watched button pressed,
\* the first call returns its bit clear, the second returns it set, and the
\* third and later calls return it clear: exactly one call of the run
\* returns the bit, whatever the other buttons do.
C1_DebounceExactlyOnce ==
    /\ held = 1 => (watch \notin rv /\ emitted = 0)
    /\ held = 2 => (watch \in rv /\ emitted = 1)
    /\ held >= 3 => (watch \notin rv /\ emitted = 1)

\* a third or later call of a run, while another button is being reported
C1_Witness ==
    /\ held = MaxHeld
    /\ emitted = 1
    /\ \E j \in rv : j # watch

\* C2: after a reported press and a single released read, the first call
\* that reads the button pressed again returns its bit clear and the second
\* one returns it set.
C2_ReleaseResetsEligibility ==
    again => /\ held = 1 => watch \notin rv
             /\ held = 2 => watch \in rv

\* the second pressed call after the release reports the button again
C2_Witness == again /\ held = 2 /\ watch \in rv

\* C3: at start-up and after every call the reported mask is a subset of
\* the pressed mask and both masks only hold button indices 0..10.
C3_SamplerInvariant ==
    /\ buttonPressedReleased \subseteq buttonPressed
    /\ buttonPressed \subseteq Buttons
    /\ buttonPressedReleased \subseteq Buttons

\* one button reported and another one pressed but not yet reported
C3_Witness ==
    /\ buttonPressedReleased # {}
    /\ buttonPressed \ buttonPressedReleased # {}
    /\ held > 0

\* C4: when a cycle finished without error and the lowest pressed button is
\* the back button, itemIndex becomes max(itemIndex - 1, 0) and
\* collectionIndex is unchanged; itemIndex is never negative.
C4_BackSaturation ==
    /\ (PressCycle /\ MinOf(callBackVal) = backButtonIx)
          => (idx = MaxOf(was.idx - 1, 0) /\ alb = was.alb)
    /\ idx >= 0

\* the back button pressed at the first item
C4_Witness ==
    /\ PressCycle
    /\ MinOf(callBackVal) = backButtonIx
    /\ was.idx = 0
    /\ idx = 0

\* C5: when a cycle finished without error and the lowest pressed button b
\* is neither back nor forward and differs from the current collection, the
\* state becomes (b, 0).
C5_CollectionSwitch ==
    (/\ PressCycle
     /\ MinOf(callBackVal) \notin { backButtonIx, fwdButtonIx, was.alb })
        => (alb = MinOf(callBackVal) /\ idx = 0)

\* a switch away from a collection that had advanced beyond its first item
C5_Witness ==
    /\ PressCycle
    /\ MinOf(callBackVal) \notin { backButtonIx, fwdButtonIx, was.alb }
    /\ was.idx > 0
    /\ alb # was.alb

\* C6: when a cycle finished without error and there is no press event, or
\* the lowest pressed button is the forward button or the button of the
\* current collection, itemIndex is incremented and collectionIndex kept.
C6_Advance ==
    (/\ CycleEnded
     /\ rtrn = NONE
     /\ \/ callBackVal = {}
        \/ MinOf(callBackVal) = fwdButtonIx
        \/ MinOf(callBackVal) = was.alb)
        => (alb = was.alb /\ idx = was.idx + 1)

\* the button of the current collection advanced it
C6_Witness ==
    /\ PressCycle
    /\ MinOf(callBackVal) = was.alb
    /\ idx = was.idx + 1

collectionCount == lastAlbIx + 1

\* C7: an error at the first item of collection c leads to
\* ((c + 1) mod collectionCount, 0).
C7_ErrorAtFirstItem ==
    (CycleEnded /\ rtrn = FAIL /\ was.idx = 0)
        => (alb = (was.alb + 1) % collectionCount /\ idx = 0)

\* the wrap from the last collection to collection 0
C7_Witness ==
    /\ CycleEnded
    /\ rtrn = FAIL
    /\ was = [alb |-> lastAlbIx, idx |-> 0]
    /\ alb = 0

\* C8: an error at a later item of collection c leads to (c, 0).
C8_ErrorMidCollection ==
    (CycleEnded /\ rtrn = FAIL /\ was.idx > 0)
        => (alb = was.alb /\ idx = 0)

\* an error at the last explored item restarts the collection
C8_Witness ==
    /\ CycleEnded
    /\ rtrn = FAIL
    /\ was.idx = MaxIdx
    /\ alb = was.alb
    /\ idx = 0

\* the effect section 4.2 gives the single button b in state (c, k)
NavRule(b, c, k) ==
    IF b = backButtonIx THEN << c, MaxOf(k - 1, 0) >>
    ELSE IF b = fwdButtonIx \/ b = c THEN << c, k + 1 >>
    ELSE << b, 0 >>

\* C9: when a finished cycle hands back several buttons, only the effect of
\* the lowest one is applied; all of them are marked reported, and no
\* button is emitted again while it has been read pressed in every call
\* since it was emitted.
C9_LowestWinsRestConsumed ==
    /\ (PressCycle /\ Cardinality(callBackVal) >= 2)
          => << alb, idx >> = NavRule(MinOf(callBackVal), was.alb, was.idx)
    /\ (pc \in { "ret", "loop" } /\ rtrn = NONE)
          => (callBackVal \subseteq buttonPressedReleased
              /\ callBackVal \subseteq consumed)
    /\ reEmitted = {}

\* two buttons handed back together: the lower one switched the collection,
\* the other one is consumed
C9_Witness ==
    /\ PressCycle
    /\ Cardinality(callBackVal) >= 2
    /\ alb = MinOf(callBackVal)
    /\ alb # was.alb
    /\ callBackVal \subseteq consumed

Expected == << << 3, 1 >>, << 3, 2 >>, << 3, 0 >>, << 4, 0 >> >>

\* C10: from the initial state (3, 0) the cycles Finished without press,
\* Finished with the forward button, Error, Error lead through (3, 1),
\* (3, 2), (3, 0), (4, 0).
C10_EndToEnd ==
    /\ scen = 0 => << alb, idx >> = << 3, 0 >>
    /\ \A k \in 1 .. Len(Expected) : scen = k => << alb, idx >> = Expected[k]

\* the fourth cycle of the scenario has ended
C10_Witness == scen = Len(Expected) /\ pc = "loop" /\ alb = 4 /\ idx = 0

\* the values of the lookup table
TableValues == { volTable[k] : k \in 1 .. Len(volTable) }

\* C11: for every reading 0..1023 the index reading >> 6 lies in 0..15, the
\* 16 entries of volTable, and the volume written is a table value (1..50).
C11_VolumeIndexInRange ==
    /\ Len(volTable) = 16
    /\ (pot \div 64) \in 0 .. (Len(volTable) - 1)
    /\ volume # -1 => (volume \in TableValues /\ volume \in 1 .. 50)

\* the highest reading has been converted with a button held
C11_Witness ==
    /\ pot = 1023
    /\ volume = 50
    /\ buttonPressedReleased # {}

\* C12: for readings a1 <= a2 the volume written for a1 is at most the
\* volume written for a2, whatever the buttons do: the volume of the latest
\* call is compared with the volume of every other reading.
C12_VolumeMonotone ==
    volume # -1 =>
        \A a \in AinRange :
            /\ a <= pot => VolumeOf(a) <= volume
            /\ pot <= a => volume <= VolumeOf(a)

\* a reading in the middle of the range, strictly between the extremes
C12_Witness ==
    /\ volume # -1
    /\ VolumeOf(0) < volume
    /\ volume < VolumeOf(1023)
    /\ rv # {}

\* C13: in every reachable state of the combined machine a next action is
\* defined: at the entry of loop() the play request is issued, inside the
\* play call the engine can return, and once play has returned, with either
\* outcome and any press event set, loop() runs to its end.
C13_NeverHalts ==
    /\ pc \in { "loop", "play", "ret" }
    /\ pc = "loop" => ENABLED Request
    /\ pc = "play" => ENABLED (\E cbv \in ErrorVals : PlayError(cbv))
    /\ pc = "ret" => ENABLED Decide

\* play has returned an error with a press event set and loop() can go on
C13_Witness ==
    /\ pc = "ret"
    /\ rtrn = FAIL
    /\ callBackVal # {}
    /\ ENABLED Decide

\* C15: a call returns the watched button's bit only if the pin was read
\* pressed in that call and in the call before; a pressed read that follows
\* a released read, or is the first call after power-up, returns it clear.
C15_GlitchSuppressed ==
    /\ watch \in rv => held >= 2
    /\ held <= 1 => watch \notin rv

\* the first pressed read of the watched button, in a call that reports
\* another button
C15_Witness ==
    /\ held = 1
    /\ watch \notin rv
    /\ rv # {}

\* C19: collectionIndex is in 0..8 in every reachable state; it is never the
\* back button's index, the forward button's index or numButtons.
C19_CollectionRange ==
    /\ alb \in 0 .. lastAlbIx
    /\ alb \notin { backButtonIx, fwdButtonIx, numButtons }

\* the button of the last collection handed back together with the back
\* button: the collection is switched to 8
C19_Witness ==
    /\ PressCycle
    /\ backButtonIx \in callBackVal
    /\ MinOf(callBackVal) = lastAlbIx
    /\ alb = lastAlbIx
    /\ was.alb # lastAlbIx

\* the error rule of the navigator: the first item failed, so the whole
\* collection is skipped; a later item failed, so the collection restarts
ErrorRule(c, k) == IF k = 0 THEN << (c + 1) % collectionCount, 0 >> ELSE << c, 0 >>

\* C17: after a cycle whose play call returned an error, the navigator state
\* is the error rule applied to the state the cycle started from, whatever
\* press event set the engine handed back, and loop() would have reached the
\* same state for every other set; a button reported in such a cycle is not
\* emitted again while it is read pressed in every later call.
C17_ErrorIgnoresPress ==
    /\ (CycleEnded /\ rtrn = FAIL) =>
           /\ << alb, idx >> = ErrorRule(was.alb, was.idx)
           /\ \A cbv \in SUBSET Keys :
                  LoopDecide(FAIL, cbv, was.alb, was.idx)
                      = [alb |-> alb, idx |-> idx]
    /\ lost \subseteq consumed
    /\ reEmitted = {}

\* an error cycle in which the forward button was reported has ended at
\* item 0, and the button is still held in the next cycle, after a call that
\* emitted nothing
C17_Witness ==
    /\ fwdButtonIx \in lost
    /\ pc = "play"
    /\ rv = {}
    /\ was.idx = 0
    /\ idx = 0
    /\ alb # firstAlbIx

\* what C16 says about one step of the combined machine
C16_Step ==
    /\ pc # "play" => UNCHANGED << buttonPressed, buttonPressedReleased >>
    /\ (PlayFinished \/ \E cbv \in ErrorVals : PlayError(cbv)) =>
           UNCHANGED << buttonPressed, buttonPressedReleased >>
    /\ reEmitted' = {}
    /\ (pc' = "ret" /\ rtrn' = NONE) =>
           /\ callBackVal' \subseteq rv'
           /\ callBackVal' \cap (consumed \cap lastLow') = {}
    /\ (tick = "none" /\ tick' = "first") =>
           (buttonPressed \ buttonPressedReleased) \cap lastLow' \subseteq rv'

\* C16: the masks of the sampler are changed by callbacks only, not by loop()
\* nor by the return of a play call, so they persist from one item to the
\* next; a button read pressed in every callback since it was emitted,
\* whatever the number of items played meanwhile, is not emitted again and is
\* not handed to the navigator again; a button first read pressed in the last
\* callback of an item and still pressed in the first callback of the next
\* item is returned by that callback.
C16_SamplerPersists == [][C16_Step]_vars

\* the first callback of an item has reported a press, first seen by the
\* last callback of an earlier item, and the play call has returned it, while
\* another button is held since it was reported for an earlier item
C16_Witness ==
    /\ tick = "first"
    /\ pc = "ret"
    /\ rtrn = NONE
    /\ callBackVal # {}
    /\ consumed \ rv # {}

\* the rule of the sampler for button i as the specification words it: the
\* reported bit is set at once when the press is put into the event set
RuleStep(low, i, st) ==
    IF buttonIxMap[i + 1] \notin low
    THEN [st EXCEPT !.pressed = @ \ {i}, !.reported = @ \ {i}]
    ELSE IF i \in st.pressed /\ i \notin st.reported
         THEN [st EXCEPT !.events = @ \cup {i}, !.reported = @ \cup {i}]
         ELSE [st EXCEPT !.pressed = @ \cup {i}]

RECURSIVE RuleScan(_, _, _)
RuleScan(low, i, st) ==
    IF i >= numButtons
    THEN st
    ELSE RuleScan(low, i + 1, RuleStep(low, i, st))

\* sample() of the specification on the masks pressed and reported
RuleSample(low, pressed, reported) ==
    RuleScan(low, 0,
             [pressed |-> pressed, reported |-> reported, events |-> {}])

\* C18: from every sampler state with the reported mask inside the pressed
\* mask and for every vector of pin levels, playCallBack returns the press
\* event set and leaves the two masks that the rule of the specification,
\* which marks a button as reported at once, gives on the same inputs.
C18_SampleRefinesRule ==
    /\ buttonPressedReleased \subseteq buttonPressed
    /\ \A low \in RuleLows :
           \E c \in { PlayCallBack(low, pot, buttonPressed,
                                   buttonPressedReleased) } :
               \E r \in { RuleSample(low, buttonPressed,
                                     buttonPressedReleased) } :
                   /\ c.rv = r.events
                   /\ c.bp = r.pressed
                   /\ c.bpr = r.reported

\* a call has emitted two buttons at once and marked both, next to a button
\* read pressed for the first time and a button reported earlier
C18_Witness ==
    /\ Cardinality(rv) >= 2
    /\ rv \subseteq buttonPressedReleased
    /\ buttonPressedReleased \ rv # {}
    /\ lastLow \ buttonPressedReleased # {}
    /\ lastLow = buttonPressed

DigitValue(c) == CHOOSE d \in 0 .. 9 : DigitChars[d + 1] = c

RECURSIVE Number(_)
\* the number a sequence of digits denotes
Number(s) ==
    IF Len(s) = 0
    THEN 0
    ELSE 10 * Number(SubSeq(s, 1, Len(s) - 1)) + DigitValue(s[Len(s)])

\* the two indices a request identifier denotes
ParseName(s) ==
    LET slash == CHOOSE k \in 1 .. Len(s) : s[k] = "/"
        dot == CHOOSE k \in 1 .. Len(s) : s[k] = "."
    IN  << Number(SubSeq(s, 1, slash - 1)),
           Number(SubSeq(s, slash + 1, dot - 1)) >>

\* C14: in every reachable navigator state the identifier
\* "<alb>/<idx>.WAV" that loop() builds denotes alb and idx again when it is
\* read back, and fits with its terminating zero into the 10 characters of
\* fileName: idx is at most 999.
C14_RequestWellFormed ==
    /\ alb >= 0
    /\ idx >= 0
    /\ idx <= 999
    /\ Len(FileName(alb, idx)) + 1 <= fileNameSize
    /\ ParseName(FileName(alb, idx)) = << alb, idx >>

\* C20: while every play call returns an error, idx is 0 after the first
\* cycle and alb moves on by one modulo the number of collections with every
\* further cycle, so that no request is tried twice in 9 cycles, every
\* collection has been requested at song 0 after 10 cycles, and the state is
\* the one of 9 cycles before.
C20_ErrorSweep ==
    /\ errRun >= 1 =>
           /\ idx = 0
           /\ alb = (errFirst + errRun - 1) % collectionCount
           /\ Cardinality(swept) >= MinOf({ errRun - 1, collectionCount })
    /\ errRun >= collectionCount + 1 => swept = 0 .. lastAlbIx
    /\ errRun = collectionCount + 1 => alb = errFirst

\* ten play calls in a row have returned an error: every collection has
\* been requested at song 0 and alb is back where it was 9 cycles before
C20_Witness ==
    /\ errRun = collectionCount + 1
    /\ swept = 0 .. lastAlbIx
    /\ alb = errFirst
    /\ idx = 0

=============================================================================
